---- MODULE Spec2Model ----
(***************************************************************************)
(* Climate Data Explorer (src/app.py): the data-transform pipeline of the  *)
(* Streamlit dashboard and one pass of the script over it.                 *)
(*                                                                         *)
(* Numbers.  Anomalies and temperatures are floats in the program; here a  *)
(* number is an exact rational [n, d] in lowest terms with d > 0, in units *)
(* of 0.1 degree C (so 1.5 degree C is 15), and NaN is [n |-> 0, d |-> 0]. *)
(* Floating-point rounding error is not modelled.                          *)
(***************************************************************************)
EXTENDS Integers, Sequences, FiniteSets, TLC

VARIABLES
    source,            \* the data file: "ok", "missing" or "unreadable"
    csv,               \* rows of the data file
    df,                \* the loaded dataset (load_data's result)
    pc,                \* position of the script / how the pass ended
    page,              \* elements rendered so far, in order
    selected_country,  \* sidebar selectbox
    year_range,        \* sidebar range slider <<lo, hi>>
    ma_window,         \* sidebar slider
    annual_data,       \* get_annual_data(df, selected_country)
    annual_filtered,   \* annual_data restricted to year_range
    metrics,           \* the four key metrics
    plot_data,         \* annual_filtered with the MA column
    decade_data,       \* the decade table (tab 3, and the decade export)
    decade_stats,      \* the decade table as displayed (rounded)
    compare_countries, \* tab 4 multiselect
    comparison_annual, \* tab 4 chart data
    stats_list,        \* tab 4 comparison rows
    story,             \* values interpolated into the narrative
    progress,          \* the value handed to st.progress
    decade_csv         \* the decade export

widgets == <<selected_country, year_range, ma_window, compare_countries>>
frames == <<annual_data, annual_filtered, plot_data, decade_data, decade_stats,
            comparison_annual, decade_csv>>
texts == <<metrics, stats_list, story, progress>>
vars == <<source, csv, df, pc, page, widgets, frames, texts>>

(***************************************************************************)
(* Bounds of the model                                                     *)
(***************************************************************************)
\* rows of a dataset handed to get_annual_data on its own
MaxObs == 3
\* annual records handed to get_decade_data on its own
MaxAnnual == 3
\* points of an annual series handed to the rolling mean on its own
MaxPoints == 7
\* rows of the data file in a pass of the script
MaxRows == 3

(***************************************************************************)
(* Rational arithmetic with NaN                                            *)
(***************************************************************************)
Abs(x) == IF x < 0 THEN -x ELSE x

RECURSIVE GCD(_, _)
GCD(a, b) == IF b = 0 THEN a ELSE GCD(b, a % b)

Rat(num, den) ==
    LET g == GCD(Abs(num), den)
    IN  [n |-> num \div g, d |-> den \div g]

Num(k) == [n |-> k, d |-> 1]
NaN == [n |-> 0, d |-> 0]
isna(x) == x.d = 0

Add(a, b) ==
    IF isna(a) \/ isna(b) THEN NaN
    ELSE Rat(a.n * b.d + b.n * a.d, a.d * b.d)

Sub(a, b) ==
    IF isna(a) \/ isna(b) THEN NaN
    ELSE Rat(a.n * b.d - b.n * a.d, a.d * b.d)

DivInt(a, k) == IF isna(a) THEN NaN ELSE Rat(a.n, a.d * k)

\* comparisons with NaN are False, as for floats
Gt(a, b) == ~isna(a) /\ ~isna(b) /\ a.n * b.d > b.n * a.d
Ge(a, b) == ~isna(a) /\ ~isna(b) /\ a.n * b.d >= b.n * a.d

(***************************************************************************)
(* pandas Series operations used by the script                             *)
(***************************************************************************)
RECURSIVE Sum(_)
Sum(s) == IF s = <<>> THEN Num(0) ELSE Add(Head(s), Sum(Tail(s)))

notna(s) == SelectSeq(s, LAMBDA x : ~isna(x))

\* Series.mean(): NaN skipped, NaN for an empty (or all-NaN) series
mean(s) ==
    LET v == notna(s)
    IN  IF v = <<>> THEN NaN ELSE DivInt(Sum(v), Len(v))

\* Series.idxmax / idxmin: the position of the first occurrence of the extreme,
\* found by a left-to-right scan that replaces the best only by a strictly
\* better value
RECURSIVE ScanMax(_, _, _)
ScanMax(s, i, best) ==
    IF i > Len(s) THEN best
    ELSE ScanMax(s, i + 1, IF Gt(s[i], s[best]) THEN i ELSE best)

\* idxmax returning the last occurrence of the maximum
RECURSIVE ScanMaxLast(_, _, _)
ScanMaxLast(s, i, best) ==
    IF i > Len(s) THEN best
    ELSE ScanMaxLast(s, i + 1, IF Ge(s[i], s[best]) THEN i ELSE best)

idxmax_last(s) == ScanMaxLast(s, 2, 1)

idxmax(s) == ScanMax(s, 2, 1)

RECURSIVE ScanMin(_, _, _)
ScanMin(s, i, best) ==
    IF i > Len(s) THEN best
    ELSE ScanMin(s, i + 1, IF Gt(s[best], s[i]) THEN i ELSE best)

idxmin(s) == ScanMin(s, 2, 1)

\* the keys of a groupby: unique, ascending
RECURSIVE SortSet(_)
SortSet(S) ==
    IF S = {} THEN <<>>
    ELSE LET m == CHOOSE x \in S : \A y \in S : x <= y
         IN  <<m>> \o SortSet(S \ {m})

Anomalies(frame) == [i \in 1..Len(frame) |-> frame[i].Anomaly]
Temperatures(frame) == [i \in 1..Len(frame) |-> frame[i].Temperature]

(***************************************************************************)
(* The cached functions                                                    *)
(***************************************************************************)
\* df.dropna(subset=['Anomaly'])
load_data(rows) == SelectSeq(rows, LAMBDA r : ~isna(r.Anomaly))

\* the countries in alphabetical order, as sorted() orders them
CountryNames == <<"Chile", "South Korea">>

get_country_list(d) ==
    SelectSeq(CountryNames, LAMBDA c : \E i \in 1..Len(d) : d[i].Country = c)

\* get_annual_data grouping the rows of every country
get_annual_data_any_country(d, country) ==
    LET keys == SortSet({d[i].Years : i \in 1..Len(d)})
        group(y) == SelectSeq(d, LAMBDA r : r.Years = y)
    IN  [k \in 1..Len(keys) |->
            [Year |-> keys[k],
             Anomaly |-> mean(Anomalies(group(keys[k]))),
             Temperature |-> mean(Temperatures(group(keys[k])))]]

get_annual_data(d, country) ==
    LET country_data == SelectSeq(d, LAMBDA r : r.Country = country)
        keys == SortSet({country_data[i].Years : i \in 1..Len(country_data)})
        group(y) == SelectSeq(country_data, LAMBDA r : r.Years = y)
    IN  [k \in 1..Len(keys) |->
            [Year |-> keys[k],
             Anomaly |-> mean(Anomalies(group(keys[k]))),
             Temperature |-> mean(Temperatures(group(keys[k])))]]

\* get_decade_data with the division truncating toward zero
get_decade_data_truncating(annual_df) ==
    LET Decade(r) == IF r.Year < 0 THEN -(((-r.Year) \div 10) * 10)
                     ELSE (r.Year \div 10) * 10
        keys == SortSet({Decade(annual_df[i]) : i \in 1..Len(annual_df)})
        group(dec) == SelectSeq(annual_df, LAMBDA r : Decade(r) = dec)
    IN  [k \in 1..Len(keys) |->
            [Decade |-> keys[k], Anomaly |-> mean(Anomalies(group(keys[k])))]]

get_decade_data(annual_df) ==
    LET Decade(r) == (r.Year \div 10) * 10
        keys == SortSet({Decade(annual_df[i]) : i \in 1..Len(annual_df)})
        group(dec) == SelectSeq(annual_df, LAMBDA r : Decade(r) = dec)
    IN  [k \in 1..Len(keys) |->
            [Decade |-> keys[k], Anomaly |-> mean(Anomalies(group(keys[k])))]]

\* frame[(frame['Year'] >= lo) & (frame['Year'] <= hi)]
InRange(frame, range) ==
    SelectSeq(frame, LAMBDA r : r.Year >= range[1] /\ r.Year <= range[2])

(***************************************************************************)
(* Rounding: round(x, 3) and the .2f format, to the nearest with ties to   *)
(* even                                                                    *)
(***************************************************************************)
RoundHalfEven(p, q) ==
    LET fl == p \div q
        rem == p - fl * q
    IN  IF 2 * rem < q THEN fl
        ELSE IF 2 * rem > q THEN fl + 1
        ELSE IF fl % 2 = 0 THEN fl ELSE fl + 1

\* x is in units of 0.1, so 3 decimals are hundredths of a unit
round3(x) == IF isna(x) THEN NaN ELSE Rat(RoundHalfEven(100 * x.n, x.d), 100)
\* 2 decimals are tenths of a unit
fmt2(x) == IF isna(x) THEN NaN ELSE Rat(RoundHalfEven(10 * x.n, x.d), 10)

(***************************************************************************)
(* Tab 1: the centered rolling mean.  pandas' fixed window of `window`     *)
(* rows ends (window - 1) \div 2 rows after the row it is reported at, and *)
(* min_periods defaults to the window size.                                *)
(***************************************************************************)
\* rolling_mean with the window ending window \div 2 rows after its row
rolling_mean_late(s, window) ==
    LET n == Len(s)
        offset == window \div 2
        last(i) == i + offset
        first(i) == last(i) - window + 1
        win(i) == SubSeq(s, IF first(i) < 1 THEN 1 ELSE first(i),
                            IF last(i) > n THEN n ELSE last(i))
    IN  [i \in 1..n |->
            IF Len(notna(win(i))) < window THEN NaN ELSE mean(win(i))]

rolling_mean(s, window) ==
    LET n == Len(s)
        offset == (window - 1) \div 2
        last(i) == i + offset
        first(i) == last(i) - window + 1
        win(i) == SubSeq(s, IF first(i) < 1 THEN 1 ELSE first(i),
                            IF last(i) > n THEN n ELSE last(i))
    IN  [i \in 1..n |->
            IF Len(notna(win(i))) < window THEN NaN ELSE mean(win(i))]

with_MA(frame, window) ==
    LET ma == rolling_mean(Anomalies(frame), window)
    IN  [i \in 1..Len(frame) |->
            [Year |-> frame[i].Year, Anomaly |-> frame[i].Anomaly,
             Temperature |-> frame[i].Temperature, MA |-> ma[i]]]

(***************************************************************************)
(* Sidebar                                                                 *)
(***************************************************************************)
slider_default_start == 1900
ma_window_min == 5
ma_window_max == 20
ma_window_default == 10

Years(d) == {d[i].Years : i \in 1..Len(d)}
min_year(d) == CHOOSE y \in Years(d) : \A z \in Years(d) : y <= z
max_year(d) == CHOOSE y \in Years(d) : \A z \in Years(d) : y >= z

\* The range slider offers min_year..max_year, widened by Streamlit to hold
\* the default value (1900, max_year); it returns a pair lo <= hi.
SliderValues(d) ==
    LET lo0 == IF slider_default_start < min_year(d)
               THEN slider_default_start ELSE min_year(d)
        hi0 == IF slider_default_start > max_year(d)
               THEN slider_default_start ELSE max_year(d)
    IN  {<<lo, hi>> \in (lo0..hi0) \X (lo0..hi0) : lo <= hi}

\* The window tried in a pass of the script: the default, which is also the
\* value when the moving average is switched off.  A pass has at most MaxRows
\* annual records, fewer than the smallest window, so every window leaves
\* the whole MA column missing there; SpecRolling tries all of 5..20 on
\* longer series.
WindowChoices == {ma_window_default}

(***************************************************************************)
(* Key metrics                                                             *)
(***************************************************************************)
latest_row(frame) ==
    LET latest_year == CHOOSE y \in {frame[i].Year : i \in 1..Len(frame)} :
                           \A i \in 1..Len(frame) : frame[i].Year <= y
    IN  Head(SelectSeq(frame, LAMBDA r : r.Year = latest_year))

key_metrics(frame) ==
    LET max_row == frame[idxmax(Anomalies(frame))]
        min_row == frame[idxmin(Anomalies(frame))]
    IN  [latest_year |-> latest_row(frame).Year,
         latest_anomaly |-> fmt2(latest_row(frame).Anomaly),
         avg_anomaly |-> fmt2(mean(Anomalies(frame))),
         hottest_year |-> max_row.Year,
         hottest_anomaly |-> fmt2(max_row.Anomaly),
         coldest_year |-> min_row.Year,
         coldest_anomaly |-> fmt2(min_row.Anomaly)]

(***************************************************************************)
(* Tab 3: decade table                                                     *)
(***************************************************************************)
tab3_decade_data(frame, range) ==
    SelectSeq(get_decade_data(frame), LAMBDA r : r.Decade >= range[1])

round_decades(frame) ==
    [i \in 1..Len(frame) |->
        [Decade |-> frame[i].Decade, Anomaly |-> round3(frame[i].Anomaly)]]

(***************************************************************************)
(* Tab 4: country comparison                                               *)
(***************************************************************************)
RECURSIVE Flatten(_)
Flatten(ss) == IF ss = <<>> THEN <<>> ELSE Head(ss) \o Flatten(Tail(ss))

\* what the multiselect can return: distinct countries in the order chosen
CompareChoices(cs) ==
    LET C == {cs[i] : i \in 1..Len(cs)}
    IN  {s \in UNION {[1..k -> C] : k \in 0..Len(cs)} :
            \A i, j \in 1..Len(s) : i # j => s[i] # s[j]}

comparison_frame(d, compare, range) ==
    LET data == SelectSeq(d, LAMBDA r : \E i \in 1..Len(compare) : compare[i] = r.Country)
        ys == SortSet(Years(data))
        cell(y, c) ==
            LET g == SelectSeq(data, LAMBDA r : r.Years = y /\ r.Country = c)
            IN  IF g = <<>> THEN <<>>
                ELSE <<[Years |-> y, Country |-> c, Anomaly |-> mean(Anomalies(g))]>>
        grouped == Flatten([k \in 1..Len(ys) |->
                       Flatten([j \in 1..Len(CountryNames) |-> cell(ys[k], CountryNames[j])])])
    IN  SelectSeq(grouped, LAMBDA r : r.Years >= range[1] /\ r.Years <= range[2])

stats_row(d, country, range) ==
    LET country_filtered == InRange(get_annual_data(d, country), range)
        a == Anomalies(country_filtered)
    IN  IF Len(country_filtered) > 0
        THEN <<[Country |-> country,
                Avg_Anomaly |-> round3(mean(a)),
                Max_Anomaly |-> round3(a[idxmax(a)]),
                Min_Anomaly |-> round3(a[idxmin(a)]),
                Hottest_Year |-> country_filtered[idxmax(a)].Year,
                Data_Points |-> Len(country_filtered)]>>
        ELSE <<>>

\* comparison_stats taking each row from the pooled rows of all the compared
\* countries
comparison_stats_pooled(d, compare, range) ==
    LET pooled(c) ==
            LET data == SelectSeq(d, LAMBDA r : \E i \in 1..Len(compare) : compare[i] = r.Country)
            IN  [i \in 1..Len(data) |-> [data[i] EXCEPT !.Country = c]]
    IN  Flatten([i \in 1..Len(compare) |-> stats_row(pooled(compare[i]), compare[i], range)])

comparison_stats(d, compare, range) ==
    Flatten([i \in 1..Len(compare) |-> stats_row(d, compare[i], range)])

(***************************************************************************)
(* Story generator                                                         *)
(***************************************************************************)
\* paris_target = 1.5 degrees, in units of 0.1
paris_target == 15

Min2(a, b) == IF Gt(a, b) THEN b ELSE a

\* generate_story with the midpoint year counted in the early period
generate_story_inclusive(story_data, range) ==
    LET a == Anomalies(story_data)
        latest == latest_row(story_data)
        hottest == story_data[idxmax(a)]
        coldest == story_data[idxmin(a)]
        mid_year == (range[1] + range[2]) \div 2
        early == mean(Anomalies(SelectSeq(story_data, LAMBDA r : r.Year <= mid_year)))
        recent == mean(Anomalies(SelectSeq(story_data, LAMBDA r : r.Year >= mid_year)))
        change == Sub(recent, early)
    IN  [latest_year |-> latest.Year, latest_anomaly |-> latest.Anomaly,
         hottest_year |-> hottest.Year, hottest_anomaly |-> hottest.Anomaly,
         coldest_year |-> coldest.Year, coldest_anomaly |-> coldest.Anomaly,
         avg |-> mean(a), mid_year |-> mid_year,
         early |-> early, recent |-> recent, change |-> change,
         early_text |-> fmt2(early), recent_text |-> fmt2(recent),
         change_text |-> fmt2(change),
         qualifier |-> IF Gt(change, Num(0)) THEN "warming" ELSE "cooling"]

generate_story(story_data, range) ==
    LET a == Anomalies(story_data)
        latest == latest_row(story_data)
        hottest == story_data[idxmax(a)]
        coldest == story_data[idxmin(a)]
        mid_year == (range[1] + range[2]) \div 2
        early == mean(Anomalies(SelectSeq(story_data, LAMBDA r : r.Year < mid_year)))
        recent == mean(Anomalies(SelectSeq(story_data, LAMBDA r : r.Year >= mid_year)))
        change == Sub(recent, early)
    IN  [latest_year |-> latest.Year, latest_anomaly |-> latest.Anomaly,
         hottest_year |-> hottest.Year, hottest_anomaly |-> hottest.Anomaly,
         coldest_year |-> coldest.Year, coldest_anomaly |-> coldest.Anomaly,
         avg |-> mean(a), mid_year |-> mid_year,
         early |-> early, recent |-> recent, change |-> change,
         early_text |-> fmt2(early), recent_text |-> fmt2(recent),
         change_text |-> fmt2(change),
         qualifier |-> IF Gt(change, Num(0)) THEN "warming" ELSE "cooling"]

\* min(current_progress / 100, 1.0), current_progress = anomaly / 1.5 * 100
progress_value(latest_anomaly) ==
    LET current_progress == DivInt(Rat(100 * latest_anomaly.n, latest_anomaly.d),
                                   paris_target)
    IN  Min2(DivInt(current_progress, 100), Num(1))

\* st.progress accepts a float in [0.0, 1.0] and raises otherwise
progress_accepts(v) == Ge(v, Num(0)) /\ Ge(Num(1), v)

(***************************************************************************)
(* Values of the variables before the script assigns them                  *)
(***************************************************************************)
NoMetrics ==
    [latest_year |-> 0, latest_anomaly |-> NaN, avg_anomaly |-> NaN,
     hottest_year |-> 0, hottest_anomaly |-> NaN,
     coldest_year |-> 0, coldest_anomaly |-> NaN]

NoStory ==
    [latest_year |-> 0, latest_anomaly |-> NaN,
     hottest_year |-> 0, hottest_anomaly |-> NaN,
     coldest_year |-> 0, coldest_anomaly |-> NaN,
     avg |-> NaN, mid_year |-> 0,
     early |-> NaN, recent |-> NaN, change |-> NaN,
     early_text |-> NaN, recent_text |-> NaN, change_text |-> NaN,
     qualifier |-> ""]

Unassigned ==
    /\ page = <<>>
    /\ selected_country = ""
    /\ year_range = <<0, 0>>
    /\ ma_window = 0
    /\ compare_countries = <<>>
    /\ annual_data = <<>>
    /\ plot_data = <<>>
    /\ decade_data = <<>>
    /\ decade_stats = <<>>
    /\ comparison_annual = <<>>
    /\ decade_csv = <<>>
    /\ metrics = NoMetrics
    /\ stats_list = <<>>
    /\ story = NoStory
    /\ progress = NaN

(***************************************************************************)
(* The data files tried in a pass of the script: up to MaxRows rows, listed *)
(* by country, year and anomaly, then rows whose Anomaly is blank (NaN).   *)
(***************************************************************************)
FileYears == <<1899, 1900, 1901>>
FileAnomalies == <<Num(-3), Num(18)>>
FileTemperature == Num(120)

FilledRowCount == Len(CountryNames) * Len(FileYears) * Len(FileAnomalies)
FileRowCount == FilledRowCount + Len(CountryNames)

\* row k of the listing, k = 0, 1, ...
FileRow(k) ==
    IF k < FilledRowCount
    THEN [Country |-> CountryNames[(k \div (Len(FileYears) * Len(FileAnomalies))) + 1],
          Years |-> FileYears[((k \div Len(FileAnomalies)) % Len(FileYears)) + 1],
          Anomaly |-> FileAnomalies[(k % Len(FileAnomalies)) + 1],
          Temperature |-> FileTemperature]
    ELSE [Country |-> CountryNames[k - FilledRowCount + 1],
          Years |-> FileYears[2],
          Anomaly |-> NaN,
          Temperature |-> FileTemperature]

DataFiles ==
    UNION {{[i \in 1..n |-> FileRow(idx[i])] :
              idx \in {f \in [1..n -> 0..(FileRowCount - 1)] :
                          \A i \in 1..(n - 1) : f[i] <= f[i + 1]}} :
           n \in 0..MaxRows}

(***************************************************************************)
(* One pass of the script, section by section                              *)
(***************************************************************************)
Init ==
    /\ pc = "load"
    /\ \/ source = "ok" /\ csv \in DataFiles
       \/ source \in {"missing", "unreadable"} /\ csv = <<>>
    /\ df = <<>>
    /\ annual_filtered = <<>>
    /\ Unassigned

\* lines 57-62: read_csv raises FileNotFoundError for a missing file, which
\* the script catches, and another OSError (PermissionError, IsADirectoryError)
\* for a file that exists and cannot be read, which it does not catch
LoadData ==
    /\ pc = "load"
    /\ \/ /\ source = "ok"
          /\ df' = load_data(csv)
          /\ pc' = "sidebar"
          /\ page' = page
       \/ /\ source = "missing"
          /\ page' = Append(page, "error: data file not found")
          /\ pc' = "stopped"
          /\ df' = df
       \/ /\ source = "unreadable"
          /\ pc' = "exception"
          /\ UNCHANGED <<df, page>>
    /\ UNCHANGED <<source, csv, widgets, frames, texts>>

\* lines 67-102; countries[0] and min() of no years raise on an empty dataset
Sidebar ==
    /\ pc = "sidebar"
    /\ LET countries == get_country_list(df)
       IN  \/ /\ countries = <<>>
              /\ pc' = "exception"
              /\ page' = Append(page, "sidebar title")
              /\ UNCHANGED <<selected_country, year_range, ma_window>>
           \/ /\ countries # <<>>
              /\ \E i \in 1..Len(countries), r \in SliderValues(df), w \in WindowChoices :
                    /\ selected_country' = countries[i]
                    /\ year_range' = r
                    /\ ma_window' = w
              /\ page' = Append(page, "sidebar")
              /\ pc' = "main"
    /\ UNCHANGED <<source, csv, df, compare_countries, frames, texts>>

\* MainContent testing the unfiltered annual data for emptiness
MainContent_unfiltered_test ==
    /\ pc = "main"
    /\ annual_data' = get_annual_data(df, selected_country)
    /\ annual_filtered' = InRange(annual_data', year_range)
    /\ IF Len(annual_data') = 0
       THEN /\ page' = page \o <<"title", "warning: no data in range">>
            /\ pc' = "stopped"
       ELSE /\ page' = Append(page, "title")
            /\ pc' = "metrics"
    /\ UNCHANGED <<source, csv, df, widgets, texts, plot_data, decade_data,
                   decade_stats, comparison_annual, decade_csv>>

\* lines 107-119
MainContent ==
    /\ pc = "main"
    /\ annual_data' = get_annual_data(df, selected_country)
    /\ annual_filtered' = InRange(annual_data', year_range)
    /\ IF Len(annual_filtered') = 0
       THEN /\ page' = page \o <<"title", "warning: no data in range">>
            /\ pc' = "stopped"
       ELSE /\ page' = Append(page, "title")
            /\ pc' = "metrics"
    /\ UNCHANGED <<source, csv, df, widgets, texts, plot_data, decade_data,
                   decade_stats, comparison_annual, decade_csv>>

\* lines 124-160
KeyMetrics ==
    /\ pc = "metrics"
    /\ metrics' = key_metrics(annual_filtered)
    /\ page' = Append(page, "key metrics")
    /\ pc' = "tab1"
    /\ UNCHANGED <<source, csv, df, widgets, frames, stats_list, story, progress>>

\* lines 170-241
TimeSeries ==
    /\ pc = "tab1"
    /\ plot_data' = with_MA(annual_filtered, ma_window)
    /\ page' = Append(page, "time series")
    /\ pc' = "tab2"
    /\ UNCHANGED <<source, csv, df, widgets, texts, annual_data, annual_filtered,
                   decade_data, decade_stats, comparison_annual, decade_csv>>

\* lines 246-277
WarmingStripes ==
    /\ pc = "tab2"
    /\ page' = Append(page, "warming stripes")
    /\ pc' = "tab3"
    /\ UNCHANGED <<source, csv, df, widgets, frames, texts>>

\* lines 282-312
DecadeAnalysis ==
    /\ pc = "tab3"
    /\ decade_data' = tab3_decade_data(annual_filtered, year_range)
    /\ decade_stats' = round_decades(decade_data')
    /\ page' = Append(page, "decade analysis")
    /\ pc' = "tab4"
    /\ UNCHANGED <<source, csv, df, widgets, texts, annual_data, annual_filtered,
                   plot_data, comparison_annual, decade_csv>>

\* lines 317-385
CountryComparison ==
    /\ pc = "tab4"
    /\ \E compare \in CompareChoices(get_country_list(df)) :
          /\ compare_countries' = compare
          /\ IF Len(compare) > 0
             THEN /\ comparison_annual' = comparison_frame(df, compare, year_range)
                  /\ stats_list' = comparison_stats(df, compare, year_range)
                  /\ page' = page \o <<"comparison chart">> \o
                        (IF stats_list' # <<>> THEN <<"country statistics">> ELSE <<>>)
             ELSE /\ page' = Append(page, "warning: select a country")
                  /\ UNCHANGED <<comparison_annual, stats_list>>
    /\ pc' = "story"
    /\ UNCHANGED <<source, csv, df, selected_country, year_range, ma_window,
                   annual_data, annual_filtered, plot_data, decade_data,
                   decade_stats, decade_csv, metrics, story, progress>>

\* lines 390-440
StoryGenerator ==
    /\ pc = "story"
    /\ story' = generate_story(annual_filtered, year_range)
    /\ progress' = progress_value(story'.latest_anomaly)
    /\ IF progress_accepts(progress')
       THEN /\ page' = page \o <<"story", "paris progress">> \o
                  (IF Ge(story'.latest_anomaly, Num(paris_target))
                   THEN <<"paris: exceeded">>
                   ELSE <<"paris: remaining budget">>)
            /\ pc' = "download"
       ELSE /\ page' = Append(page, "story")
            /\ pc' = "exception"
    /\ UNCHANGED <<source, csv, df, widgets, frames, metrics, stats_list>>

\* lines 445-479
DataDownload ==
    /\ pc = "download"
    /\ decade_csv' = decade_data
    /\ page' = page \o <<"download annual", "download decade", "footer">>
    /\ pc' = "done"
    /\ UNCHANGED <<source, csv, df, widgets, texts, annual_data, annual_filtered,
                   plot_data, decade_data, decade_stats, comparison_annual>>

\* an interaction reruns the script from the top with a cleared page
Rerun ==
    /\ pc \in {"done", "stopped", "exception"}
    /\ pc' = "load"
    /\ df' = <<>>
    /\ page' = <<>>
    /\ selected_country' = ""
    /\ year_range' = <<0, 0>>
    /\ ma_window' = 0
    /\ compare_countries' = <<>>
    /\ annual_data' = <<>>
    /\ annual_filtered' = <<>>
    /\ plot_data' = <<>>
    /\ decade_data' = <<>>
    /\ decade_stats' = <<>>
    /\ comparison_annual' = <<>>
    /\ decade_csv' = <<>>
    /\ metrics' = NoMetrics
    /\ stats_list' = <<>>
    /\ story' = NoStory
    /\ progress' = NaN
    /\ UNCHANGED <<source, csv>>

Next ==
    \/ LoadData
    \/ Sidebar
    \/ MainContent
    \/ KeyMetrics
    \/ TimeSeries
    \/ WarmingStripes
    \/ DecadeAnalysis
    \/ CountryComparison
    \/ StoryGenerator
    \/ DataDownload
    \/ Rerun

Spec == Init /\ [][Next]_vars

(***************************************************************************)
(* get_annual_data on its own: any loaded dataset of up to MaxObs rows in  *)
(* any order, any country (one of them with no rows at all)                *)
(***************************************************************************)
ObsRows ==
    [Country : {"Chile", "South Korea"}, Years : {1899, 1900},
     Anomaly : {Num(-3), Num(18)}, Temperature : {NaN, Num(120)}]

CountryArgs == {"Chile", "South Korea", "Atlantis"}

InitAnnual ==
    /\ pc = "get_annual_data"
    /\ source = "ok"
    /\ csv = <<>>
    /\ df \in UNION {[1..n -> ObsRows] : n \in 0..MaxObs}
    /\ annual_filtered = <<>>
    /\ Unassigned

CallGetAnnualData ==
    /\ pc = "get_annual_data"
    /\ \E country \in CountryArgs :
          /\ selected_country' = country
          /\ annual_data' = get_annual_data(df, country)
    /\ pc' = "returned"
    /\ UNCHANGED <<source, csv, df, page, year_range, ma_window, compare_countries,
                   annual_filtered, plot_data, decade_data, decade_stats,
                   comparison_annual, decade_csv, texts>>

SpecAnnual == InitAnnual /\ [][CallGetAnnualData]_vars

(***************************************************************************)
(* get_decade_data on its own: any sequence of up to MaxAnnual annual      *)
(* records, years below zero included                                      *)
(***************************************************************************)
AnnualRecords ==
    [Year : {-11, -1, 0, 9, 10}, Anomaly : {Num(-3), Num(18), Rat(15, 2)},
     Temperature : {NaN}]

InitDecade ==
    /\ pc = "get_decade_data"
    /\ source = "ok"
    /\ csv = <<>>
    /\ df = <<>>
    /\ annual_filtered \in UNION {[1..n -> AnnualRecords] : n \in 0..MaxAnnual}
    /\ Unassigned

CallGetDecadeData ==
    /\ pc = "get_decade_data"
    /\ decade_data' = get_decade_data(annual_filtered)
    /\ pc' = "returned"
    /\ UNCHANGED <<source, csv, df, page, widgets, annual_data, annual_filtered,
                   plot_data, decade_stats, comparison_annual, decade_csv, texts>>

SpecDecade == InitDecade /\ [][CallGetDecadeData]_vars

(***************************************************************************)
(* The rolling mean of tab 1 on its own: any filtered annual series of up  *)
(* to MaxPoints points, any window the slider offers                       *)
(***************************************************************************)
SeriesAnomalies == {Num(-3), Num(0), Num(18)}

Series(a) ==
    [i \in 1..Len(a) |-> [Year |-> 1898 + i, Anomaly |-> a[i], Temperature |-> NaN]]

InitRolling ==
    /\ pc = "rolling"
    /\ source = "ok"
    /\ csv = <<>>
    /\ df = <<>>
    /\ \E a \in UNION {[1..n -> SeriesAnomalies] : n \in 0..MaxPoints} :
          annual_filtered = Series(a)
    /\ Unassigned

CallRolling ==
    /\ pc = "rolling"
    /\ \E w \in ma_window_min..ma_window_max :
          /\ ma_window' = w
          /\ plot_data' = with_MA(annual_filtered, w)
    /\ pc' = "returned"
    /\ UNCHANGED <<source, csv, df, page, selected_country, year_range,
                   compare_countries, annual_data, annual_filtered, decade_data,
                   decade_stats, comparison_annual, decade_csv, texts>>

SpecRolling == InitRolling /\ [][CallRolling]_vars

(***************************************************************************)
(* Properties                                                              *)
(***************************************************************************)
\* the sum of g over the finite set S, by taking the elements one at a time
RECURSIVE RatSum(_, _)
RatSum(S, g) ==
    IF S = {} THEN Num(0)
    ELSE LET x == CHOOSE x \in S : TRUE
         IN  Add(g[x], RatSum(S \ {x}, g))

MeanOver(S, g) == IF S = {} THEN NaN ELSE DivInt(RatSum(S, g), Cardinality(S))

\* the rows of d that are observations of country c in year y
ObsOf(d, c, y) == {i \in 1..Len(d) : d[i].Country = c /\ d[i].Years = y}
ObsYears(d, c) == {d[i].Years : i \in {j \in 1..Len(d) : d[j].Country = c}}
ObsAnomaly(d) == [i \in 1..Len(d) |-> d[i].Anomaly]

\* C1: get_annual_data(df, C) returns exactly one record for each year that
\* has an observation of C and none for another year, in strictly ascending
\* year order, each record's anomaly being the arithmetic mean of C's
\* observations of that year; a country without observations yields the
\* empty sequence.
C1_AnnualOnePerYear ==
    pc = "returned" =>
        LET c == selected_country
            n == Len(annual_data)
        IN  /\ n = Cardinality(ObsYears(df, c))
            /\ {annual_data[k].Year : k \in 1..n} = ObsYears(df, c)
            /\ \A k \in 1..(n - 1) : annual_data[k].Year < annual_data[k + 1].Year
            /\ \A k \in 1..n :
                  annual_data[k].Anomaly =
                      MeanOver(ObsOf(df, c, annual_data[k].Year), ObsAnomaly(df))
            /\ (ObsYears(df, c) = {} => n = 0)

\* C1 witness: a dataset given out of year order, with two different
\* observations of the country in one year and an observation of the other
\* country, has been aggregated into two records.
C1_Witness ==
    /\ pc = "returned"
    /\ Len(df) = MaxObs
    /\ Len(annual_data) = 2
    /\ df[1].Years > df[2].Years
    /\ \E k \in 1..2 : annual_data[k].Anomaly = Rat(15, 2)

\* the annual records of `frame` whose year lies in the decade starting at dec
InDecade(frame, dec) ==
    {i \in 1..Len(frame) : dec <= frame[i].Year /\ frame[i].Year <= dec + 9}
FrameAnomaly(frame) == [i \in 1..Len(frame) |-> frame[i].Anomaly]

\* C2: every decade get_decade_data returns is a multiple of 10 and is the
\* decade d with d <= year <= d + 9 of some input record, every input record
\* has its decade in the output, decades are strictly ascending, and the
\* anomaly for d is the mean of the anomalies of all input records with year
\* in [d, d + 9].
C2_DecadeMeans ==
    pc = "returned" =>
        LET n == Len(decade_data)
        IN  /\ \A k \in 1..n :
                  /\ decade_data[k].Decade % 10 = 0
                  /\ InDecade(annual_filtered, decade_data[k].Decade) # {}
                  /\ decade_data[k].Anomaly =
                        MeanOver(InDecade(annual_filtered, decade_data[k].Decade),
                                 FrameAnomaly(annual_filtered))
            /\ \A k \in 1..(n - 1) : decade_data[k].Decade < decade_data[k + 1].Decade
            /\ \A i \in 1..Len(annual_filtered) :
                  \E k \in 1..n : i \in InDecade(annual_filtered, decade_data[k].Decade)

\* C2 witness: years -1, 0 and 9 with different anomalies in 0 and 9 have
\* been put into the decades -10 and 0.
C2_Witness ==
    /\ pc = "returned"
    /\ Len(annual_filtered) = 3
    /\ annual_filtered[1].Year = 9 /\ annual_filtered[2].Year = -1
    /\ annual_filtered[3].Year = 0
    /\ annual_filtered[1].Anomaly # annual_filtered[3].Anomaly
    /\ Len(decade_data) = 2
    /\ decade_data[1].Decade = -10

\* the column has one value per input point, for the same years
MAAligned ==
    /\ Len(plot_data) = Len(annual_filtered)
    /\ \A i \in 1..Len(plot_data) :
          /\ plot_data[i].Year = annual_filtered[i].Year
          /\ plot_data[i].Anomaly = annual_filtered[i].Anomaly

\* C3 as stated: the moving average is missing for exactly the first
\* floor(W/2) and the last floor(W/2) points, and at every other position is
\* the mean of W consecutive points around the position (for even W, of
\* either of the two windows of W points nearest to centered).
C3_SymmetricEdges ==
    pc = "returned" =>
        LET n == Len(annual_filtered)
            h == ma_window \div 2
        IN  /\ MAAligned
            /\ \A i \in 1..n :
                  IF i <= h \/ i > n - h
                  THEN isna(plot_data[i].MA)
                  ELSE \E a \in {i - h, i - ((ma_window - 1) \div 2)} :
                          plot_data[i].MA =
                              MeanOver(a..(a + ma_window - 1),
                                       FrameAnomaly(annual_filtered))

\* C3 amended: the moving average is missing (NaN, never zero) for exactly
\* the first floor(W/2) and the last floor((W-1)/2) points, and at every
\* other position i it is the mean of the W consecutive points
\* i - floor(W/2) .. i + floor((W-1)/2).
C3_RollingWindow ==
    pc = "returned" =>
        LET n == Len(annual_filtered)
            before == ma_window \div 2
            after == (ma_window - 1) \div 2
        IN  /\ MAAligned
            /\ \A i \in 1..n :
                  IF i <= before \/ i > n - after
                  THEN plot_data[i].MA = NaN
                  ELSE /\ Cardinality((i - before)..(i + after)) = ma_window
                       /\ plot_data[i].MA =
                             MeanOver((i - before)..(i + after),
                                      FrameAnomaly(annual_filtered))

\* C3 witness: an even window of 6 over 7 points gives values at positions
\* 4 and 5 only, one of them a defined mean of zero.
C3_Witness ==
    /\ pc = "returned"
    /\ ma_window = 6
    /\ Len(plot_data) = 7
    /\ ~isna(plot_data[4].MA) /\ ~isna(plot_data[5].MA)
    /\ isna(plot_data[3].MA) /\ isna(plot_data[6].MA)
    /\ plot_data[4].MA = Num(0)
    /\ plot_data[5].MA # Num(0)

(***************************************************************************)
(* Properties of a pass of the script                                      *)
(***************************************************************************)
Rendered(e) == \E i \in 1..Len(page) : page[i] = e

\* the years in the selected range with an observation of country c, and the
\* annual mean anomaly of c in each
YearsInRange(c) ==
    {y \in ObsYears(df, c) : year_range[1] <= y /\ y <= year_range[2]}
AnnualMean(c) ==
    [y \in YearsInRange(c) |-> MeanOver(ObsOf(df, c, y), ObsAnomaly(df))]

\* the smallest year of Y whose value in am is not exceeded (hot) or not
\* undercut (cold) by another year's
SmallestHottest(Y, am) ==
    LET top == {y \in Y : \A z \in Y : ~Gt(am[z], am[y])}
    IN  CHOOSE y \in top : \A z \in top : y <= z
SmallestColdest(Y, am) ==
    LET bottom == {y \in Y : \A z \in Y : ~Gt(am[y], am[z])}
    IN  CHOOSE y \in bottom : \A z \in bottom : y <= z

FrameYears(frame) == {frame[i].Year : i \in 1..Len(frame)}
FrameMean(frame) == [y \in FrameYears(frame) |->
    (CHOOSE r \in {frame[i] : i \in 1..Len(frame)} : r.Year = y).Anomaly]

\* C4: for a non-empty selection S of comparison countries the statistics
\* table has exactly one row for each country of S with an annual record in
\* range and none for another country, and a country's row (avg, max, min,
\* hottest year, point count over its own annual series in range) is fixed by
\* the dataset, the range and that country alone.
C4_ComparisonRows ==
    Rendered("comparison chart") =>
        LET S == {compare_countries[i] : i \in 1..Len(compare_countries)}
            n == Len(stats_list)
        IN  /\ \A c \in S :
                  Cardinality({k \in 1..n : stats_list[k].Country = c}) =
                      (IF YearsInRange(c) # {} THEN 1 ELSE 0)
            /\ \A k \in 1..n :
                  LET row == stats_list[k]
                      Y == YearsInRange(row.Country)
                      am == AnnualMean(row.Country)
                  IN  /\ row.Country \in S
                      /\ row.Data_Points = Cardinality(Y)
                      /\ row.Avg_Anomaly = round3(MeanOver(Y, am))
                      /\ row.Hottest_Year \in Y
                      /\ \A z \in Y : ~Gt(am[z], am[row.Hottest_Year])
                      /\ row.Max_Anomaly = round3(am[row.Hottest_Year])
                      /\ \E y \in Y :
                            /\ \A z \in Y : ~Gt(am[y], am[z])
                            /\ row.Min_Anomaly = round3(am[y])

\* C4 witness: two countries were compared, one of them without a record in
\* range, and the table holds the one row of the other, taken over two years.
C4_Witness ==
    /\ Rendered("country statistics")
    /\ Len(compare_countries) = 2
    /\ Len(stats_list) = 1
    /\ stats_list[1].Data_Points = 2
    /\ Len(get_country_list(df)) = 2

\* C5: the hottest year shown (key metric, narrative, comparison row) is the
\* smallest of the in-range years that share the maximum anomaly, and the
\* coldest year shown (key metric, narrative) the smallest of those that
\* share the minimum.
C5_SmallestYearOnTies ==
    /\ Rendered("key metrics") =>
          /\ metrics.hottest_year =
                SmallestHottest(FrameYears(annual_filtered), FrameMean(annual_filtered))
          /\ metrics.coldest_year =
                SmallestColdest(FrameYears(annual_filtered), FrameMean(annual_filtered))
    /\ Rendered("story") =>
          /\ story.hottest_year =
                SmallestHottest(FrameYears(annual_filtered), FrameMean(annual_filtered))
          /\ story.coldest_year =
                SmallestColdest(FrameYears(annual_filtered), FrameMean(annual_filtered))
    /\ Rendered("country statistics") =>
          \A k \in 1..Len(stats_list) :
              stats_list[k].Hottest_Year =
                  SmallestHottest(YearsInRange(stats_list[k].Country),
                                  AnnualMean(stats_list[k].Country))

\* C5 witness: the first and the last of three in-range years share the
\* maximum, the pass has shown the key metrics, the narrative and the
\* selected country's comparison row, and all three name the first year.
C5_Witness ==
    /\ Rendered("story")
    /\ Rendered("country statistics")
    /\ Len(annual_filtered) = 3
    /\ annual_filtered[1].Anomaly = annual_filtered[3].Anomaly
    /\ Gt(annual_filtered[1].Anomaly, annual_filtered[2].Anomaly)
    /\ metrics.hottest_year = annual_filtered[1].Year
    /\ story.hottest_year = annual_filtered[1].Year
    /\ \E k \in 1..Len(stats_list) :
          /\ stats_list[k].Country = selected_country
          /\ stats_list[k].Hottest_Year = annual_filtered[1].Year

\* the selected country has no observation in the selected year range
EmptySelection ==
    ~\E i \in 1..Len(df) :
        /\ df[i].Country = selected_country
        /\ year_range[1] <= df[i].Years
        /\ df[i].Years <= year_range[2]

DependentSections ==
    {"key metrics", "time series", "warming stripes", "decade analysis",
     "story", "paris progress", "paris: exceeded", "paris: remaining budget",
     "download annual", "download decade"}

\* C6: once a pass has computed the filtered series of a selection with no
\* annual record in range, it has shown the warning and stopped: no section
\* that depends on the filtered series is rendered, and no exception ended
\* the pass.
C6_EmptySelectionStops ==
    (Rendered("title") /\ EmptySelection) =>
        /\ pc = "stopped"
        /\ Rendered("warning: no data in range")
        /\ \A e \in DependentSections : ~Rendered(e)
        /\ metrics = NoMetrics /\ story = NoStory
        /\ Len(plot_data) = 0 /\ Len(decade_data) = 0 /\ Len(decade_csv) = 0

\* C6 witness: the selected country has annual records, none of them in the
\* selected range, and the pass stopped on the warning.
C6_Witness ==
    /\ pc = "stopped"
    /\ Rendered("warning: no data in range")
    /\ Len(annual_data) > 0
    /\ Len(annual_filtered) = 0

\* C7: whenever the data file cannot be opened, missing or unreadable, the
\* pass shows the message and stops before anything else is rendered, and no
\* exception escapes.
C7_UnopenableSourceHalts ==
    (source # "ok" /\ pc # "load") =>
        /\ pc = "stopped"
        /\ Len(page) = 1
        /\ Rendered("error: data file not found")

\* C8: in the narrative mid_year = floor((lo + hi) / 2), the early value is
\* the mean anomaly of the filtered records with year < mid_year, the recent
\* value the mean of those with year >= mid_year, and the qualifier is
\* 'warming' when recent - early is positive and 'cooling' when it is
\* negative.
C8_NarrativeSplit ==
    Rendered("story") =>
        LET mid == story.mid_year
            E == {i \in 1..Len(annual_filtered) : annual_filtered[i].Year < mid}
            R == {i \in 1..Len(annual_filtered) : annual_filtered[i].Year >= mid}
            e == MeanOver(E, FrameAnomaly(annual_filtered))
            r == MeanOver(R, FrameAnomaly(annual_filtered))
        IN  /\ 2 * mid <= year_range[1] + year_range[2]
            /\ year_range[1] + year_range[2] < 2 * mid + 2
            /\ story.early = e
            /\ story.recent = r
            /\ (E # {} /\ R # {}) =>
                  /\ r.n * e.d > e.n * r.d => story.qualifier = "warming"
                  /\ r.n * e.d < e.n * r.d => story.qualifier = "cooling"

\* C8 witness: a narrative over a record before the midpoint year and a
\* warmer record in the midpoint year itself.
C8_Witness ==
    /\ Rendered("story")
    /\ Len(annual_filtered) = 2
    /\ annual_filtered[2].Year = story.mid_year
    /\ annual_filtered[1].Year < story.mid_year
    /\ story.qualifier = "warming"

\* every record of `frame` lies in the decade of some row of `table`
DecadesCover(table, frame) ==
    \A i \in 1..Len(frame) :
        \E k \in 1..Len(table) :
            /\ table[k].Decade <= frame[i].Year
            /\ frame[i].Year <= table[k].Decade + 9

\* C9: the decade table displayed and the one exported hold a row for every
\* decade in which a filtered annual record falls, the decade containing lo
\* included.
C9_DecadeTableCoversRange ==
    /\ Rendered("decade analysis") =>
          /\ DecadesCover(decade_data, annual_filtered)
          /\ DecadesCover(decade_stats, annual_filtered)
    /\ Rendered("download decade") => DecadesCover(decade_csv, annual_filtered)

\* C10: in every pass that reaches the narrative section the value handed
\* to the progress bar lies in [0, 1], so the section does not fail, and
\* exactly one status message is shown: 'exceeded' iff the latest anomaly is
\* at least 1.5 degrees, else 'remaining budget'.
C10_ProgressInUnitInterval ==
    Rendered("story") =>
        /\ Ge(progress, Num(0)) /\ Ge(Num(1), progress)
        /\ pc # "exception"
        /\ Rendered("paris: exceeded") <=> Ge(story.latest_anomaly, Num(paris_target))
        /\ Rendered("paris: remaining budget") <=>
              ~Ge(story.latest_anomaly, Num(paris_target))

====
